---- MODULE Spec2Model ----
(***************************************************************************)
(* Healthcare assessment: DataProcessor (field normalizers, batch          *)
(* processing, statistics), RiskCalculator (scores, categories, alert      *)
(* predicates), HealthcareAPIClient (retries, pagination) and              *)
(* HealthcareAssessmentApp (generateAlerts, run).                          *)
(*                                                                         *)
(* JavaScript values are tagged records.  A number is kept in fixed point: *)
(* the integer n stands for n / Scale, so 9950 is 99.5 and 12000 is 120.   *)
(* A string is the sequence of its characters, each a one-character TLA+   *)
(* string; the three non-ASCII unit characters are the tokens "deg"        *)
(* (U+00B0), "ord" (U+00BA) and "degF" (U+2109).                           *)
(***************************************************************************)
EXTENDS Integers, Sequences, FiniteSets, TLC

VARIABLES patients, processedPatients, warnings, stats, alerts, pc,
          rawPatient, subject, report, rpc,
          service, fpc, page, hasMore, allPatients, fetches,
          rstate, attempt, lastError, result, thrown,
          invocations, backoffs, errorsSeen,
          cpc, spc, submissions, exitCode

vars == <<patients, processedPatients, warnings, stats, alerts, pc,
          rawPatient, subject, report, rpc,
          service, fpc, page, hasMore, allPatients, fetches,
          rstate, attempt, lastError, result, thrown,
          invocations, backoffs, errorsSeen,
          cpc, spc, submissions, exitCode>>

appVars == <<patients, processedPatients, warnings, stats, alerts, pc>>

riskVars == <<rawPatient, subject, report, rpc>>

(* fetchAllPatients: its position fpc, its locals, and the pages it has    *)
(* called fetchPatientsPage for, in order                                  *)
fetchVars == <<fpc, page, hasMore, allPatients, fetches>>

(* executeWithRetry: its position rstate, its locals, what it returned or  *)
(* threw, and the record of the current call: requests made, backoff       *)
(* sleeps started, errors caught in order                                  *)
retryVars == <<rstate, attempt, lastError, result, thrown,
               invocations, backoffs, errorsSeen>>

(* the position of testConnection and of submitAssessment, the number of  *)
(* calls of submitAssessment, and the exit code of the process (-1 while   *)
(* it runs)                                                                *)
callVars == <<cpc, spc, submissions, exitCode>>

clientVars == <<service, fetchVars, retryVars, callVars>>

----------------------------------------------------------------------------
(* JavaScript values *)

Scale == 100

Fx(whole, hundredths) == whole * Scale + hundredths

Null == [type |-> "null"]

Undefined == [type |-> "undefined"]

NaN == [type |-> "nan"]

Num(n) == [type |-> "number", num |-> n]

Str(s) == [type |-> "string", str |-> s]

Obj(s, d) == [type |-> "object", systolic |-> s, diastolic |-> d]

isNumber(v) == v.type \in {"number", "nan"}

isString(v) == v.type = "string"

isNaN(v) == v.type = "nan"

----------------------------------------------------------------------------
(* String primitives used by the normalizers *)

Whitespace == {" ", "\t"}

DigitChars == <<"0", "1", "2", "3", "4", "5", "6", "7", "8", "9">>

UpperChars == <<"A", "B", "C", "D", "E", "F", "G", "H", "I", "J", "K", "L", "M",
                "N", "O", "P", "Q", "R", "S", "T", "U", "V", "W", "X", "Y", "Z">>

LowerChars == <<"a", "b", "c", "d", "e", "f", "g", "h", "i", "j", "k", "l", "m",
                "n", "o", "p", "q", "r", "s", "t", "u", "v", "w", "x", "y", "z">>

IsDigit(c) == \E i \in 1..10 : DigitChars[i] = c

DigitVal(c) == (CHOOSE i \in 1..10 : DigitChars[i] = c) - 1

LowerChar(c) ==
  IF \E i \in 1..26 : UpperChars[i] = c
  THEN LowerChars[CHOOSE i \in 1..26 : UpperChars[i] = c]
  ELSE c

toLowerCase(s) == [i \in 1..Len(s) |-> LowerChar(s[i])]

RECURSIVE trimStart(_)
trimStart(s) ==
  IF s # <<>> /\ Head(s) \in Whitespace THEN trimStart(Tail(s)) ELSE s

RECURSIVE trimEnd(_)
trimEnd(s) ==
  IF s # <<>> /\ s[Len(s)] \in Whitespace
  THEN trimEnd(SubSeq(s, 1, Len(s) - 1))
  ELSE s

trim(s) == trimEnd(trimStart(s))

includes(s, sub) ==
  \E i \in 1..(Len(s) - Len(sub) + 1) : SubSeq(s, i, i + Len(sub) - 1) = sub

IndexOf(s, c) ==
  IF \E i \in 1..Len(s) : s[i] = c
  THEN CHOOSE i \in 1..Len(s) : s[i] = c /\ \A j \in 1..(i - 1) : s[j] # c
  ELSE 0

RECURSIVE split(_, _)
split(s, c) ==
  IF IndexOf(s, c) = 0
  THEN <<s>>
  ELSE <<SubSeq(s, 1, IndexOf(s, c) - 1)>>
         \o split(SubSeq(s, IndexOf(s, c) + 1, Len(s)), c)

RECURSIVE removeChars(_, _)
removeChars(s, cs) ==
  IF s = <<>> THEN <<>>
  ELSE IF Head(s) \in cs THEN removeChars(Tail(s), cs)
       ELSE <<Head(s)>> \o removeChars(Tail(s), cs)

RECURSIVE DigitRun(_)
DigitRun(s) ==
  IF s # <<>> /\ IsDigit(Head(s)) THEN 1 + DigitRun(Tail(s)) ELSE 0

RECURSIVE DigitsValue(_)
DigitsValue(s) ==
  IF s = <<>> THEN 0 ELSE DigitsValue(SubSeq(s, 1, Len(s) - 1)) * 10 + DigitVal(s[Len(s)])

(* The fraction digits of a decimal literal as hundredths; the inputs carry *)
(* at most two fraction digits, further digits are cut.                     *)
FractionValue(s) ==
  IF Len(s) = 0 THEN 0
  ELSE IF Len(s) = 1 THEN DigitVal(s[1]) * 10
  ELSE DigitVal(s[1]) * 10 + DigitVal(s[2])

(* /^\d+(\.\d+)?$/ *)
IsUnsignedDecimal(s) ==
  LET n == DigitRun(s) IN
    /\ n >= 1
    /\ \/ n = Len(s)
       \/ /\ n + 1 < Len(s)
          /\ s[n + 1] = "."
          /\ DigitRun(SubSeq(s, n + 2, Len(s))) = Len(s) - n - 1

(* parseFloat: skips leading white space, reads an optional sign, digits,  *)
(* an optional point and digits, and ignores whatever follows; NaN when no *)
(* digit was read.  Exponents and "Infinity" are outside the inputs used.  *)
parseFloat(str) ==
  LET s     == trimStart(str)
      neg   == s # <<>> /\ Head(s) = "-"
      body  == IF s # <<>> /\ Head(s) \in {"-", "+"} THEN Tail(s) ELSE s
      n     == DigitRun(body)
      rest  == SubSeq(body, n + 1, Len(body))
      point == rest # <<>> /\ Head(rest) = "."
      m     == IF point THEN DigitRun(Tail(rest)) ELSE 0
      whole == DigitsValue(SubSeq(body, 1, n))
      frac  == IF point THEN FractionValue(SubSeq(rest, 2, m + 1)) ELSE 0
      mag   == whole * Scale + frac
  IN IF n = 0 /\ m = 0 THEN NaN
     ELSE Num(IF neg THEN 0 - mag ELSE mag)

(* Math.round replaced by a truncation, as Math.floor or parseInt would do *)
MathRound_floor(n) == (n \div Scale) * Scale

(* Math.round: to the nearest integer, halves towards +infinity *)
MathRound(n) == ((n + (Scale \div 2)) \div Scale) * Scale

----------------------------------------------------------------------------
(* DataProcessor *)

(* the invalid result carrying the raw input as its value *)
InvalidField_keep(original) ==
  [valid |-> FALSE, value |-> original, original |-> original]

InvalidField(original) ==
  [valid |-> FALSE, value |-> Undefined, original |-> original]

InvalidReading(original) ==
  [valid |-> FALSE, systolic |-> Undefined, diastolic |-> Undefined,
   original |-> original]

parseNumericValue(value) ==
  IF isNumber(value)
  THEN (IF isNaN(value) THEN Null ELSE value)
  ELSE IF isString(value)
  THEN (IF trim(value.str) = <<>> THEN Null
        ELSE IF isNaN(parseFloat(trim(value.str))) THEN Null
        ELSE parseFloat(trim(value.str)))
  ELSE Null

(* isValidBloodPressureValue with the lower limits exclusive *)
isValidBloodPressureValue_open(value, isSystolic) ==
  IF isSystolic
  THEN value.num > 70 * Scale /\ value.num <= 300 * Scale
  ELSE value.num > 40 * Scale /\ value.num <= 200 * Scale

isValidBloodPressureValue(value, isSystolic) ==
  IF isSystolic
  THEN value.num >= 70 * Scale /\ value.num <= 300 * Scale
  ELSE value.num >= 40 * Scale /\ value.num <= 200 * Scale

(* isValidTemperature with the upper limit exclusive *)
isValidTemperature_open(value) ==
  value.num >= 90 * Scale /\ value.num < 110 * Scale

isValidTemperature(value) ==
  value.num >= 90 * Scale /\ value.num <= 110 * Scale

processAge(age) ==
  IF age = Null \/ age = Undefined \/ age = Str(<<>>)
  THEN InvalidField(age)
  ELSE IF isNumber(age)
  THEN (IF ~isNaN(age) /\ age.num > 0 /\ age.num < 150 * Scale
        THEN [valid |-> TRUE, value |-> age, original |-> age]
        ELSE InvalidField(age))
  ELSE IF isString(age)
  THEN (LET trimmedAge == trim(age.str)
            numericAge == parseFloat(trimmedAge)
        IN IF ~IsUnsignedDecimal(trimmedAge)
           THEN InvalidField(age)
           ELSE IF ~isNaN(numericAge) /\ numericAge.num > 0
                   /\ numericAge.num < 150 * Scale
           THEN [valid |-> TRUE, value |-> Num(MathRound(numericAge.num)),
                 original |-> age]
           ELSE InvalidField(age))
  ELSE InvalidField(age)

ValidatedReading(systolic, diastolic, bp) ==
  IF /\ systolic # Null
     /\ diastolic # Null
     /\ isValidBloodPressureValue(systolic, TRUE)
     /\ isValidBloodPressureValue(diastolic, FALSE)
  THEN [valid |-> TRUE, systolic |-> systolic, diastolic |-> diastolic,
        original |-> bp]
  ELSE InvalidReading(bp)

processBloodPressure(bp) ==
  IF bp = Null \/ bp = Undefined \/ bp = Str(<<>>)
  THEN InvalidReading(bp)
  ELSE IF isString(bp)
  THEN (LET trimmedBp == trim(bp.str)
            lowered   == toLowerCase(trimmedBp)
            parts     == split(trimmedBp, "/")
        IN IF \/ includes(lowered, <<"i", "n", "v", "a", "l", "i", "d">>)
              \/ includes(lowered, <<"n", "/", "a">>)
              \/ includes(lowered, <<"e", "r", "r", "o", "r">>)
           THEN InvalidReading(bp)
           ELSE IF includes(trimmedBp, <<"/">>)
           THEN (IF Len(parts) = 2
                 THEN (IF trim(parts[1]) = <<>> \/ trim(parts[2]) = <<>>
                       THEN InvalidReading(bp)
                       ELSE ValidatedReading(
                              parseNumericValue(Str(trim(parts[1]))),
                              parseNumericValue(Str(trim(parts[2]))), bp))
                 ELSE InvalidReading(bp))
           ELSE InvalidReading(bp))
  ELSE IF bp.type = "object"
  THEN ValidatedReading(parseNumericValue(bp.systolic),
                        parseNumericValue(bp.diastolic), bp)
  ELSE InvalidReading(bp)

UnitChars == {"deg", "ord", "f", "F", "degF"}

processTemperature(temp) ==
  IF temp = Null \/ temp = Undefined \/ temp = Str(<<>>)
  THEN InvalidField(temp)
  ELSE IF isNumber(temp)
  THEN (IF ~isNaN(temp) /\ isValidTemperature(temp)
        THEN [valid |-> TRUE, value |-> temp, original |-> temp]
        ELSE InvalidField(temp))
  ELSE IF isString(temp)
  THEN (LET trimmedTemp == trim(temp.str)
            lowered     == toLowerCase(trimmedTemp)
            cleanTemp   == trim(removeChars(trimmedTemp, UnitChars))
            numericTemp == parseNumericValue(Str(cleanTemp))
        IN IF \/ includes(lowered, <<"t", "e", "m", "p", "_", "e", "r", "r", "o", "r">>)
              \/ includes(lowered, <<"i", "n", "v", "a", "l", "i", "d">>)
              \/ includes(lowered, <<"n", "/", "a">>)
              \/ includes(lowered, <<"e", "r", "r", "o", "r">>)
           THEN InvalidField(temp)
           ELSE IF numericTemp # Null /\ isValidTemperature(numericTemp)
           THEN [valid |-> TRUE, value |-> numericTemp, original |-> temp]
           ELSE InvalidField(temp))
  ELSE InvalidField(temp)

processPatient(patient) ==
  [id                  |-> patient.patient_id,
   age_data            |-> processAge(patient.age),
   blood_pressure_data |-> processBloodPressure(patient.blood_pressure),
   temperature_data    |-> processTemperature(patient.temperature)]

(* hasDataQualityIssues without the age *)
hasDataQualityIssues_noAge(processedPatient) ==
  \/ ~processedPatient.blood_pressure_data.valid
  \/ ~processedPatient.temperature_data.valid

hasDataQualityIssues(processedPatient) ==
  \/ ~processedPatient.age_data.valid
  \/ ~processedPatient.blood_pressure_data.valid
  \/ ~processedPatient.temperature_data.valid

(* JavaScript truthiness of a patient_id *)
Truthy(v) ==
  /\ v.type \notin {"null", "undefined", "nan"}
  /\ v.type = "string" => v.str # <<>>
  /\ v.type = "number" => v.num # 0

(* !patient?.patient_id: the element itself may be null or undefined *)
HasNoPatientId(patient) ==
  \/ patient = Null
  \/ patient = Undefined
  \/ ~Truthy(patient.patient_id)

(* the loop of processPatients from index i (0-based), with the results    *)
(* and the errors collected so far; an error is the index it names.        *)
(* processPatient throws on no value, so the catch clause adds nothing.    *)
RECURSIVE ProcessLoop(_, _, _)
ProcessLoop(ps, i, acc) ==
  IF i >= Len(ps) THEN acc
  ELSE IF HasNoPatientId(ps[i + 1])
  THEN ProcessLoop(ps, i + 1,
         [results |-> acc.results, errors |-> Append(acc.errors, i)])
  ELSE ProcessLoop(ps, i + 1,
         [results |-> Append(acc.results, processPatient(ps[i + 1])),
          errors  |-> acc.errors])

(* the list processPatients returns *)
processPatients(ps) == ProcessLoop(ps, 0, [results |-> <<>>, errors |-> <<>>]).results

(* the errors processPatients reports through console.warn *)
processingWarnings(ps) == ProcessLoop(ps, 0, [results |-> <<>>, errors |-> <<>>]).errors

Inc(n, cond) == IF cond THEN n + 1 ELSE n

(* the body of the loop over processedPatients, from the counts so far *)
RECURSIVE StatsLoop(_, _)
StatsLoop(pps, st) ==
  IF pps = <<>> THEN st
  ELSE LET patient == Head(pps)
           full    == /\ patient.age_data.valid
                      /\ patient.blood_pressure_data.valid
                      /\ patient.temperature_data.valid
       IN StatsLoop(Tail(pps),
            [total             |-> st.total,
             validAge          |-> Inc(st.validAge, patient.age_data.valid),
             validBP           |-> Inc(st.validBP, patient.blood_pressure_data.valid),
             validTemp         |-> Inc(st.validTemp, patient.temperature_data.valid),
             fullyValid        |-> Inc(st.fullyValid, full),
             dataQualityIssues |-> Inc(st.dataQualityIssues, ~full)])

getProcessingStats(pps) ==
  StatsLoop(pps, [total |-> Len(pps), validAge |-> 0, validBP |-> 0,
                  validTemp |-> 0, fullyValid |-> 0, dataQualityIssues |-> 0])

----------------------------------------------------------------------------
(* RiskCalculator *)

NORMAL == "normal"

ELEVATED == "elevated"

STAGE_1 == "stage_1"

STAGE_2 == "stage_2"

INVALID == "invalid"

LOW_FEVER == "low_fever"

HIGH_FEVER == "high_fever"

UNDER_40 == "under_40"

MIDDLE_AGE == "middle_age"

OVER_65 == "over_65"

(* the stage of the systolic number alone *)
SystolicStage(systolic) ==
  IF systolic < 120 * Scale THEN NORMAL
  ELSE IF systolic >= 120 * Scale /\ systolic <= 129 * Scale THEN ELEVATED
  ELSE IF systolic >= 130 * Scale /\ systolic <= 139 * Scale THEN STAGE_1
  ELSE IF systolic >= 140 * Scale THEN STAGE_2
  ELSE INVALID

(* the stage of the diastolic number alone *)
DiastolicStage(diastolic) ==
  IF diastolic < 80 * Scale THEN NORMAL
  ELSE IF diastolic >= 80 * Scale /\ diastolic <= 89 * Scale THEN STAGE_1
  ELSE IF diastolic >= 90 * Scale THEN STAGE_2
  ELSE INVALID

(* FinalStage with a diastolic of exactly 80 taken as below the threshold *)
FinalStage_dia80(systolic, diastolic) ==
  IF systolic < 120 * Scale /\ diastolic <= 80 * Scale THEN NORMAL
  ELSE IF systolic >= 120 * Scale /\ systolic <= 129 * Scale /\ diastolic <= 80 * Scale
  THEN ELEVATED
  ELSE IF \/ (systolic >= 130 * Scale /\ systolic <= 139 * Scale)
          \/ (diastolic > 80 * Scale /\ diastolic <= 89 * Scale)
  THEN STAGE_1
  ELSE IF systolic >= 140 * Scale \/ diastolic >= 90 * Scale THEN STAGE_2
  ELSE INVALID

FinalStage(systolic, diastolic) ==
  IF systolic < 120 * Scale /\ diastolic < 80 * Scale THEN NORMAL
  ELSE IF systolic >= 120 * Scale /\ systolic <= 129 * Scale /\ diastolic < 80 * Scale
  THEN ELEVATED
  ELSE IF \/ (systolic >= 130 * Scale /\ systolic <= 139 * Scale)
          \/ (diastolic >= 80 * Scale /\ diastolic <= 89 * Scale)
  THEN STAGE_1
  ELSE IF systolic >= 140 * Scale \/ diastolic >= 90 * Scale THEN STAGE_2
  ELSE INVALID

StageScore(stage) ==
  CASE stage = NORMAL   -> 1
    [] stage = ELEVATED -> 2
    [] stage = STAGE_1  -> 3
    [] stage = STAGE_2  -> 4
    [] OTHER            -> 0

calculateBloodPressureRisk(processedPatient) ==
  LET bpData == processedPatient.blood_pressure_data IN
    IF ~bpData.valid \/ bpData.systolic = Undefined \/ bpData.diastolic = Undefined
    THEN 0
    ELSE StageScore(FinalStage(bpData.systolic.num, bpData.diastolic.num))

(* calculateTemperatureRisk with the low-fever band ending below 100.9 *)
calculateTemperatureRisk_open(processedPatient) ==
  LET tempData == processedPatient.temperature_data IN
    IF ~tempData.valid \/ tempData.value = Undefined
    THEN 0
    ELSE IF tempData.value.num <= Fx(99, 50) THEN 0
    ELSE IF tempData.value.num >= Fx(99, 60) /\ tempData.value.num < Fx(100, 90) THEN 1
    ELSE IF tempData.value.num >= Fx(101, 0) THEN 2
    ELSE 0

calculateTemperatureRisk(processedPatient) ==
  LET tempData == processedPatient.temperature_data IN
    IF ~tempData.valid \/ tempData.value = Undefined
    THEN 0
    ELSE IF tempData.value.num <= Fx(99, 50) THEN 0
    ELSE IF tempData.value.num >= Fx(99, 60) /\ tempData.value.num <= Fx(100, 90) THEN 1
    ELSE IF tempData.value.num >= Fx(101, 0) THEN 2
    ELSE 0

(* calculateAgeRisk with 65 counted as over 65 *)
calculateAgeRisk_from65(processedPatient) ==
  LET ageData == processedPatient.age_data IN
    IF ~ageData.valid \/ ageData.value = Undefined
    THEN 0
    ELSE IF ageData.value.num < 40 * Scale THEN 1
    ELSE IF ageData.value.num >= 40 * Scale /\ ageData.value.num < 65 * Scale THEN 1
    ELSE IF ageData.value.num >= 65 * Scale THEN 2
    ELSE 0

calculateAgeRisk(processedPatient) ==
  LET ageData == processedPatient.age_data IN
    IF ~ageData.valid \/ ageData.value = Undefined
    THEN 0
    ELSE IF ageData.value.num < 40 * Scale THEN 1
    ELSE IF ageData.value.num >= 40 * Scale /\ ageData.value.num <= 65 * Scale THEN 1
    ELSE IF ageData.value.num > 65 * Scale THEN 2
    ELSE 0

(* calculateTotalRisk leaving the age score out of the sum *)
calculateTotalRisk_noAge(processedPatient) ==
  LET bpScore   == calculateBloodPressureRisk(processedPatient)
      tempScore == calculateTemperatureRisk(processedPatient)
  IN bpScore + tempScore

calculateTotalRisk(processedPatient) ==
  LET bpScore   == calculateBloodPressureRisk(processedPatient)
      tempScore == calculateTemperatureRisk(processedPatient)
      ageScore  == calculateAgeRisk(processedPatient)
  IN bpScore + tempScore + ageScore

getDetailedRiskScores(processedPatient) ==
  LET bpScore   == calculateBloodPressureRisk(processedPatient)
      tempScore == calculateTemperatureRisk(processedPatient)
      ageScore  == calculateAgeRisk(processedPatient)
      total     == bpScore + tempScore + ageScore
  IN [blood_pressure |-> bpScore, temperature |-> tempScore, age |-> ageScore,
      total |-> total]

isHighRisk(processedPatient) == calculateTotalRisk(processedPatient) >= 4

(* hasFever with a strict comparison at 99.6 *)
hasFever_strict(processedPatient) ==
  LET tempData == processedPatient.temperature_data IN
    tempData.valid /\ tempData.value # Undefined /\ tempData.value.num > Fx(99, 60)

hasFever(processedPatient) ==
  LET tempData == processedPatient.temperature_data IN
    tempData.valid /\ tempData.value # Undefined /\ tempData.value.num >= Fx(99, 60)

(* getBloodPressureCategory with the stage 1 systolic band starting at 131 *)
getBloodPressureCategory_131(processedPatient) ==
  LET bpData == processedPatient.blood_pressure_data IN
    IF ~bpData.valid \/ bpData.systolic = Undefined \/ bpData.diastolic = Undefined
    THEN INVALID
    ELSE IF bpData.systolic.num < 120 * Scale /\ bpData.diastolic.num < 80 * Scale
    THEN NORMAL
    ELSE IF /\ bpData.systolic.num >= 120 * Scale
            /\ bpData.systolic.num <= 129 * Scale
            /\ bpData.diastolic.num < 80 * Scale
    THEN ELEVATED
    ELSE IF \/ (bpData.systolic.num >= 131 * Scale /\ bpData.systolic.num <= 139 * Scale)
            \/ (bpData.diastolic.num >= 80 * Scale /\ bpData.diastolic.num <= 89 * Scale)
    THEN STAGE_1
    ELSE IF bpData.systolic.num >= 140 * Scale \/ bpData.diastolic.num >= 90 * Scale
    THEN STAGE_2
    ELSE INVALID

getBloodPressureCategory(processedPatient) ==
  LET bpData == processedPatient.blood_pressure_data IN
    IF ~bpData.valid \/ bpData.systolic = Undefined \/ bpData.diastolic = Undefined
    THEN INVALID
    ELSE IF bpData.systolic.num < 120 * Scale /\ bpData.diastolic.num < 80 * Scale
    THEN NORMAL
    ELSE IF /\ bpData.systolic.num >= 120 * Scale
            /\ bpData.systolic.num <= 129 * Scale
            /\ bpData.diastolic.num < 80 * Scale
    THEN ELEVATED
    ELSE IF \/ (bpData.systolic.num >= 130 * Scale /\ bpData.systolic.num <= 139 * Scale)
            \/ (bpData.diastolic.num >= 80 * Scale /\ bpData.diastolic.num <= 89 * Scale)
    THEN STAGE_1
    ELSE IF bpData.systolic.num >= 140 * Scale \/ bpData.diastolic.num >= 90 * Scale
    THEN STAGE_2
    ELSE INVALID

getTemperatureCategory(processedPatient) ==
  LET tempData == processedPatient.temperature_data IN
    IF ~tempData.valid \/ tempData.value = Undefined
    THEN INVALID
    ELSE IF tempData.value.num <= Fx(99, 50) THEN NORMAL
    ELSE IF tempData.value.num >= Fx(99, 60) /\ tempData.value.num <= Fx(100, 90)
    THEN LOW_FEVER
    ELSE IF tempData.value.num >= Fx(101, 0) THEN HIGH_FEVER
    ELSE INVALID

getAgeCategory(processedPatient) ==
  LET ageData == processedPatient.age_data IN
    IF ~ageData.valid \/ ageData.value = Undefined
    THEN INVALID
    ELSE IF ageData.value.num < 40 * Scale THEN UNDER_40
    ELSE IF ageData.value.num >= 40 * Scale /\ ageData.value.num <= 65 * Scale
    THEN MIDDLE_AGE
    ELSE IF ageData.value.num > 65 * Scale THEN OVER_65
    ELSE INVALID

----------------------------------------------------------------------------
(* HealthcareAssessmentApp.generateAlerts *)

PushIf(list, cond, id) == IF cond THEN Append(list, id) ELSE list

(* the alert loop with the high-risk test as totalRisk > 4 *)
RECURSIVE AlertLoop_above4(_, _)
AlertLoop_above4(pps, lists) ==
  IF pps = <<>> THEN lists
  ELSE LET patient   == Head(pps)
           totalRisk == calculateTotalRisk(patient)
       IN AlertLoop_above4(Tail(pps),
            [high_risk_patients  |->
               PushIf(lists.high_risk_patients, totalRisk > 4, patient.id),
             fever_patients      |->
               PushIf(lists.fever_patients, hasFever(patient), patient.id),
             data_quality_issues |->
               PushIf(lists.data_quality_issues, hasDataQualityIssues(patient),
                      patient.id)])

(* the body of the loop over processedPatients, from the lists built so far *)
RECURSIVE AlertLoop(_, _)
AlertLoop(pps, lists) ==
  IF pps = <<>> THEN lists
  ELSE LET patient   == Head(pps)
           totalRisk == calculateTotalRisk(patient)
       IN AlertLoop(Tail(pps),
            [high_risk_patients  |->
               PushIf(lists.high_risk_patients, totalRisk >= 4, patient.id),
             fever_patients      |->
               PushIf(lists.fever_patients, hasFever(patient), patient.id),
             data_quality_issues |->
               PushIf(lists.data_quality_issues, hasDataQualityIssues(patient),
                      patient.id)])

generateAlerts(pps) ==
  AlertLoop(pps, [high_risk_patients |-> <<>>, fever_patients |-> <<>>,
                  data_quality_issues |-> <<>>])

----------------------------------------------------------------------------
(* Inputs *)

MaxBatch == 3

None == [type |-> "none"]

RECURSIVE NatStr(_)
NatStr(n) ==
  IF n < 10 THEN <<DigitChars[n + 1]>>
  ELSE NatStr(n \div 10) \o <<DigitChars[(n % 10) + 1]>>

(* the decimal literal of a non-negative fixed-point number: 12950 is "129.5" *)
DecStr(n) ==
  LET f == n % Scale IN
    NatStr(n \div Scale)
      \o (IF f = 0 THEN <<>>
          ELSE IF f % 10 = 0 THEN <<".", DigitChars[(f \div 10) + 1]>>
          ELSE <<".", DigitChars[(f \div 10) + 1], DigitChars[(f % 10) + 1]>>)

BPStr(s, d) == Str(DecStr(s) \o <<"/">> \o DecStr(d))

Patient(id, age, bp, temp) ==
  [patient_id |-> id, age |-> age, blood_pressure |-> bp, temperature |-> temp]

(* systolic and diastolic numbers at and between the stage thresholds *)
SystolicInputs ==
  {Fx(70, 0), Fx(119, 0), Fx(119, 50), Fx(120, 0), Fx(129, 0), Fx(129, 50),
   Fx(130, 0), Fx(135, 0), Fx(139, 0), Fx(139, 50), Fx(140, 0), Fx(300, 0)}

DiastolicInputs ==
  {Fx(40, 0), Fx(79, 0), Fx(79, 50), Fx(80, 0), Fx(89, 0), Fx(89, 50),
   Fx(90, 0), Fx(95, 0), Fx(200, 0)}

BloodPressureInputs ==
  {BPStr(s, d) : s \in SystolicInputs, d \in DiastolicInputs}
    \cup {Null, Undefined, Str(<<>>),
          Str(<<"i", "n", "v", "a", "l", "i", "d">>),
          Str(<<"N", "/", "A">>),
          Str(<<"1", "5", "0", "/">>),
          Str(<<"/", "9", "0">>),
          Str(<<"1", "2", "0">>),
          Str(<<" ", "1", "2", "5", " ", "/", " ", "7", "0", " ">>),
          Str(<<"1", "2", "0", "/", "8", "0", "/", "1">>),
          BPStr(Fx(69, 0), Fx(80, 0)),
          BPStr(Fx(120, 0), Fx(201, 0)),
          Obj(Num(Fx(110, 0)), Num(Fx(85, 0))),
          Obj(Str(<<"1", "4", "5">>), Num(Fx(70, 0))),
          Obj(Num(Fx(120, 0)), Undefined)}

TemperatureInputs ==
  {Num(Fx(89, 90)), Num(Fx(90, 0)), Num(Fx(98, 60)), Num(Fx(99, 20)),
   Num(Fx(99, 50)), Num(Fx(99, 55)), Num(Fx(99, 60)), Num(Fx(100, 90)),
   Num(Fx(100, 95)), Num(Fx(101, 0)), Num(Fx(101, 80)), Num(Fx(110, 0)),
   Num(Fx(212, 0)), Null,
   Str(<<"1", "0", "1", ".", "5", "deg", "F">>),
   Str(<<"T", "E", "M", "P", "_", "E", "R", "R", "O", "R">>)}

AgeInputs ==
  {Null, Num(0), Num(Fx(1, 0)), Num(Fx(39, 0)), Num(Fx(39, 50)), Num(Fx(40, 0)),
   Num(Fx(45, 0)), Num(Fx(65, 0)), Num(Fx(65, 50)), Num(Fx(67, 0)),
   Num(Fx(150, 0)),
   Str(<<"4", "5">>), Str(<<"6", "5", ".", "5">>), Str(<<"a", "b", "c">>)}

RawPatientInputs ==
  {Patient(id, age, bp, temp) :
     id \in {Str(<<"A">>)}, age \in AgeInputs, bp \in BloodPressureInputs,
     temp \in TemperatureInputs}

(* ProcessedPatient values a caller of RiskCalculator can build by hand:    *)
(* every combination of the valid flag with present and absent numbers      *)
FieldShapes ==
  {[valid |-> v, value |-> x, original |-> Undefined] :
     v \in BOOLEAN, x \in {Undefined, Num(Fx(66, 0)), Num(Fx(100, 0))}}

ReadingShapes ==
  {[valid |-> v, systolic |-> s, diastolic |-> d, original |-> Undefined] :
     v \in BOOLEAN, s \in {Undefined, Num(Fx(120, 0)), Num(Fx(135, 0))},
     d \in {Undefined, Num(Fx(80, 0)), Num(Fx(95, 0))}}

BuiltPatients ==
  {[id |-> Str(<<"A">>), age_data |-> a, blood_pressure_data |-> b,
    temperature_data |-> t] :
     a \in FieldShapes, b \in ReadingShapes, t \in FieldShapes}

(* the three records of the end-to-end example *)
PatientA == Patient(Str(<<"A">>), Num(Fx(45, 0)), BPStr(Fx(120, 0), Fx(80, 0)),
                    Num(Fx(98, 60)))

PatientB == Patient(Str(<<"B">>), Num(Fx(67, 0)), BPStr(Fx(140, 0), Fx(90, 0)),
                    Num(Fx(99, 20)))

PatientC == Patient(Str(<<"C">>), Null, Str(<<"i", "n", "v", "a", "l", "i", "d">>),
                    Num(Fx(101, 80)))

ExampleBatch == <<PatientA, PatientB, PatientC>>

(* records a batch is drawn from: the example's, records in every other    *)
(* combination of the three alert predicates, two of them reusing an id,    *)
(* and records whose patient_id is padded, blank, a number, empty or        *)
(* missing, and a null element                                              *)
BatchRecords ==
  {PatientA, PatientB, PatientC,
   Patient(Str(<<"D">>), Num(Fx(30, 0)), BPStr(Fx(110, 0), Fx(70, 0)),
           Num(Fx(98, 60))),
   Patient(Str(<<"E">>), Num(Fx(70, 0)), BPStr(Fx(150, 0), Fx(95, 0)),
           Str(<<"1", "0", "1", ".", "5", "deg", "F">>)),
   Patient(Str(<<"F">>), Str(<<"a", "b", "c">>), BPStr(Fx(150, 0), Fx(95, 0)),
           Num(Fx(102, 0))),
   Patient(Str(<<"A">>), Undefined, Str(<<"1", "5", "0", "/">>), Null),
   Patient(Str(<<"B">>), Num(Fx(30, 0)), BPStr(Fx(129, 50), Fx(70, 0)),
           Num(Fx(100, 0))),
   Patient(Str(<<" ", "G", " ">>), Num(Fx(50, 0)), BPStr(Fx(118, 0), Fx(76, 0)),
           Num(Fx(98, 0))),
   Patient(Str(<<" ", " ">>), Num(Fx(50, 0)), BPStr(Fx(150, 0), Fx(95, 0)),
           Num(Fx(98, 0))),
   Patient(Num(0), Num(Fx(50, 0)), BPStr(Fx(150, 0), Fx(95, 0)), Num(Fx(98, 0))),
   Patient(Num(Fx(7, 0)), Num(Fx(50, 0)), BPStr(Fx(118, 0), Fx(76, 0)),
           Num(Fx(98, 0))),
   Patient(Str(<<>>), Num(Fx(50, 0)), BPStr(Fx(118, 0), Fx(76, 0)), Num(Fx(98, 0))),
   Patient(Undefined, Num(Fx(50, 0)), BPStr(Fx(150, 0), Fx(95, 0)), Num(Fx(98, 0))),
   Null}

RECURSIVE SeqsUpTo(_, _)
SeqsUpTo(S, n) ==
  IF n = 0 THEN {<<>>}
  ELSE SeqsUpTo(S, n - 1)
         \cup {Append(q, x) : q \in {r \in SeqsUpTo(S, n - 1) : Len(r) = n - 1}, x \in S}

Batches == SeqsUpTo(BatchRecords, MaxBatch)

----------------------------------------------------------------------------
(* The batch pass of HealthcareAssessmentApp.run: processPatients,         *)
(* getProcessingStats, generateAlerts over the list of fetched records     *)

CallIdle ==
  /\ cpc = "idle"
  /\ spc = "idle"
  /\ submissions = 0
  /\ exitCode = -1

(* no call of the API client is in progress *)
ClientIdle ==
  /\ CallIdle
  /\ service = [pages |-> 0, pagination |-> TRUE, erratic |-> FALSE]
  /\ fpc = "idle"
  /\ page = 0
  /\ hasMore = FALSE
  /\ allPatients = <<>>
  /\ fetches = <<>>
  /\ rstate = "idle"
  /\ attempt = 0
  /\ lastError = None
  /\ result = None
  /\ thrown = None
  /\ invocations = 0
  /\ backoffs = 0
  /\ errorsSeen = <<>>

NoReport == [scores |-> None, total |-> None, highRisk |-> None, fever |-> None,
             categories |-> None]

RiskIdle ==
  /\ rawPatient = None
  /\ subject = None
  /\ report = NoReport
  /\ rpc = "idle"

Init ==
  /\ patients \in Batches
  /\ processedPatients = <<>>
  /\ warnings = <<>>
  /\ stats = None
  /\ alerts = None
  /\ pc = "fetched"
  /\ RiskIdle
  /\ ClientIdle

ProcessPatients ==
  /\ pc = "fetched"
  /\ processedPatients' = processPatients(patients)
  /\ warnings' = processingWarnings(patients)
  /\ pc' = "processed"
  /\ UNCHANGED <<patients, stats, alerts, riskVars, clientVars>>

GetProcessingStats ==
  /\ pc = "processed"
  /\ stats' = getProcessingStats(processedPatients)
  /\ pc' = "stats"
  /\ UNCHANGED <<patients, processedPatients, warnings, alerts, riskVars, clientVars>>

GenerateAlerts ==
  /\ pc = "stats"
  /\ alerts' = generateAlerts(processedPatients)
  /\ pc' = "alerts"
  /\ UNCHANGED <<patients, processedPatients, warnings, stats, riskVars, clientVars>>

Next == ProcessPatients \/ GetProcessingStats \/ GenerateAlerts

Spec == Init /\ [][Next]_vars

----------------------------------------------------------------------------
(* RiskCalculator applied to one ProcessedPatient: the result of           *)
(* processPatient on a raw record, or a value built by the caller          *)

AppIdle ==
  /\ patients = <<>>
  /\ processedPatients = <<>>
  /\ warnings = <<>>
  /\ stats = None
  /\ alerts = None
  /\ pc = "idle"

InitRisk ==
  /\ AppIdle
  /\ rawPatient = None
  /\ subject = None
  /\ report = NoReport
  /\ rpc = "input"
  /\ ClientIdle

ProcessPatient ==
  /\ rpc = "input"
  /\ \E raw \in RawPatientInputs :
       /\ rawPatient' = raw
       /\ subject' = processPatient(raw)
  /\ rpc' = "patient"
  /\ UNCHANGED <<report, appVars, clientVars>>

BuildPatient ==
  /\ rpc = "input"
  /\ \E p \in BuiltPatients : subject' = p
  /\ rpc' = "patient"
  /\ UNCHANGED <<rawPatient, report, appVars, clientVars>>

GetDetailedRiskScores ==
  /\ rpc = "patient"
  /\ report' = [report EXCEPT !.scores = getDetailedRiskScores(subject)]
  /\ rpc' = "scored"
  /\ UNCHANGED <<rawPatient, subject, appVars, clientVars>>

CheckAlertPredicates ==
  /\ rpc = "scored"
  /\ report' = [report EXCEPT !.total = calculateTotalRisk(subject),
                              !.highRisk = isHighRisk(subject),
                              !.fever = hasFever(subject)]
  /\ rpc' = "flagged"
  /\ UNCHANGED <<rawPatient, subject, appVars, clientVars>>

GetCategories ==
  /\ rpc = "flagged"
  /\ report' = [report EXCEPT !.categories =
                  [blood_pressure |-> getBloodPressureCategory(subject),
                   temperature    |-> getTemperatureCategory(subject),
                   age            |-> getAgeCategory(subject)]]
  /\ rpc' = "done"
  /\ UNCHANGED <<rawPatient, subject, appVars, clientVars>>

NextRisk ==
  \/ ProcessPatient
  \/ BuildPatient
  \/ GetDetailedRiskScores
  \/ CheckAlertPredicates
  \/ GetCategories

SpecRisk == InitRisk /\ [][NextRisk]_vars

----------------------------------------------------------------------------
(* The field normalizers applied through processPatient to one raw record  *)
(* that varies one field over the forms the service is known to send       *)

(* numbers an age is probed with, below, at and above the bounds *)
AgeNumbers ==
  {0, Fx(0, 40), Fx(0, 50), Fx(1, 0), Fx(39, 50), Fx(45, 0), Fx(65, 50),
   Fx(149, 0), Fx(149, 60), Fx(149, 99), Fx(150, 0), Fx(200, 0)}

Pads == {<<>>, <<" ">>}

Padded(text) == {Str(l \o text \o r) : l \in Pads, r \in Pads}

AgeProbes ==
  {Num(n) : n \in AgeNumbers \cup {0 - Fx(5, 0)}}
    \cup UNION {Padded(DecStr(n)) : n \in AgeNumbers}
    \cup {Null, Undefined, Str(<<>>), Str(<<" ">>),
          Str(<<"a", "b", "c">>), Str(<<"1", "2", "a", "b", "c">>),
          Str(<<"-", "5">>), Str(<<"+", "5">>), Str(<<"1", ".">>),
          Str(<<".", "5">>), Str(<<"4", " ", "5">>), Str(<<"1", ".", "2", ".", "3">>)}

BloodPressureProbes ==
  BloodPressureInputs
    \cup {Num(Fx(120, 0)), Str(<<" ">>), Str(<<"/">>), Str(<<" ", "/", " ">>),
          Str(<<"1", "2", "0", "a", "b", "c", "/", "8", "0">>),
          Str(<<"a", "b", "c", "/", "8", "0">>),
          Str(<<"1", "2", "0", "/", "8", "0", " ", "E", "r", "r", "o", "r">>),
          Str(<<"E", "R", "R", "O", "R">>),
          Str(<<"n", "/", "a">>),
          Str(<<"1", "2", "0", "/", "/", "8", "0">>),
          BPStr(Fx(70, 0), Fx(40, 0)), BPStr(Fx(300, 0), Fx(200, 0)),
          BPStr(Fx(69, 99), Fx(80, 0)), BPStr(Fx(301, 0), Fx(80, 0)),
          BPStr(Fx(300, 1), Fx(80, 0)), BPStr(Fx(120, 0), Fx(39, 0)),
          BPStr(Fx(120, 0), Fx(200, 1)), BPStr(Fx(69, 0), Fx(39, 0)),
          Obj(Num(Fx(69, 0)), Num(Fx(80, 0))),
          Obj(Num(Fx(70, 0)), Num(Fx(40, 0))),
          Obj(Null, Num(Fx(80, 0))),
          Obj(Str(<<"1", "2", "0">>), Str(<<"8", "0">>)),
          Obj(Str(<<"a", "b", "c">>), Num(Fx(80, 0)))}

TemperatureNumbers ==
  {0, Fx(89, 99), Fx(90, 0), Fx(98, 60), Fx(101, 50), Fx(110, 0), Fx(110, 1),
   Fx(212, 0)}

TemperatureProbes ==
  {Num(n) : n \in TemperatureNumbers}
    \cup UNION {Padded(DecStr(n)) : n \in TemperatureNumbers}
    \cup {Str(DecStr(n) \o u) :
            n \in TemperatureNumbers,
            u \in {<<"deg", "F">>, <<"F">>, <<"f">>, <<" ", "ord", "f">>, <<"degF">>,
                   <<" ", "C">>}}
    \cup {Null, Undefined, Str(<<>>), Str(<<" ">>), Str(<<"F">>),
          Str(<<"F", "9", "8", ".", "6">>),
          Str(<<"a", "b", "c">>),
          Str(<<"T", "E", "M", "P", "_", "E", "R", "R", "O", "R">>),
          Str(<<"t", "e", "m", "p", "_", "e", "r", "r", "o", "r">>),
          Str(<<"I", "n", "v", "a", "l", "i", "d">>),
          Str(<<"N", "/", "A">>),
          Str(<<"9", "8", ".", "6", " ", "e", "r", "r", "o", "r">>)}

ProbeRecords ==
  {Patient(Str(<<"A">>), a, BPStr(Fx(120, 0), Fx(80, 0)), Num(Fx(98, 60))) :
     a \in AgeProbes}
    \cup {Patient(Str(<<"A">>), Num(Fx(45, 0)), b, Num(Fx(98, 60))) :
            b \in BloodPressureProbes}
    \cup {Patient(Str(<<"A">>), Num(Fx(45, 0)), BPStr(Fx(120, 0), Fx(80, 0)), t) :
            t \in TemperatureProbes}

NormalizeRecord ==
  /\ rpc = "input"
  /\ \E raw \in ProbeRecords :
       /\ rawPatient' = raw
       /\ subject' = processPatient(raw)
  /\ rpc' = "normalized"
  /\ UNCHANGED <<report, appVars, clientVars>>

NextNormalize == NormalizeRecord

SpecNormalize == InitRisk /\ [][NextNormalize]_vars

----------------------------------------------------------------------------
(* HealthcareAPIClient: executeWithRetry around one page request, and      *)
(* fetchAllPatients paging through the service.  A request is in flight    *)
(* while rstate = "requesting"; the service settles it with a response or  *)
(* an error.                                                               *)

maxRetries == 3

maxPages == 20

MaxServicePages == 21

RecordsPerPage == 2

(* an AxiosError: response is undefined for a network failure *)
NetworkError == [response |-> Undefined]

HttpError(status) == [response |-> [status |-> status]]

Statuses == {404, 429, 500}

Errors == {NetworkError} \cup {HttpError(status) : status \in Statuses}

hasResponse(error) == error.response # Undefined

(* isRetryableError without the rate-limit status *)
isRetryableError_no429(error) ==
  IF ~hasResponse(error) THEN TRUE ELSE error.response.status >= 500

isRetryableError(error) ==
  IF ~hasResponse(error)
  THEN TRUE
  ELSE error.response.status >= 500 \/ error.response.status = 429

(* the final-attempt test taken one attempt too late *)
isFinalAttempt_late(a) == a > maxRetries

isFinalAttempt(a) == a = maxRetries

(* a service with pages of records; it sends the pagination block or not *)
Services == [pages : 0..MaxServicePages, pagination : BOOLEAN, erratic : {FALSE}]

(* a service whose answers follow no page count *)
ErraticServices == {[pages |-> MaxServicePages, pagination |-> TRUE, erratic |-> TRUE]}

(* the record the service holds at slot k of page p *)
ServiceRecord(p, k) ==
  LET like == ExampleBatch[((p + k) % 3) + 1] IN
    [page |-> p, slot |-> k,
     patient_id |-> Str(<<"P">> \o NatStr(p) \o <<"-">> \o NatStr(k)),
     age |-> like.age, blood_pressure |-> like.blood_pressure,
     temperature |-> like.temperature]

PageRecords(svc, p) ==
  IF p >= 1 /\ p <= svc.pages
  THEN [k \in 1..RecordsPerPage |-> ServiceRecord(p, k)]
  ELSE <<>>

(* the body of GET /patients?page=p *)
PageResponse(svc, p) ==
  IF svc.pagination
  THEN [data |-> PageRecords(svc, p), pagination |-> [hasNext |-> p < svc.pages]]
  ELSE [data |-> PageRecords(svc, p)]

(* what the service may answer to GET /patients?page=p: an erratic one    *)
(* sends the page or nothing, with hasNext true, false or left out, or no  *)
(* data field at all                                                       *)
Answers(svc, p) ==
  IF svc.erratic
  THEN {[data |-> d, pagination |-> [hasNext |-> h]] :
          d \in {PageRecords(svc, p), <<>>}, h \in BOOLEAN}
         \cup {[data |-> d] : d \in {PageRecords(svc, p), <<>>}}
         \cup {[pagination |-> [hasNext |-> TRUE]]}
  ELSE {PageResponse(svc, p)}

(* response.data || [] *)
dataOf(response) ==
  IF "data" \in DOMAIN response THEN response.data ELSE <<>>

(* a missing pagination block taken as more pages to come *)
hasNextOf_missingTrue(response) ==
  IF "pagination" \in DOMAIN response THEN response.pagination.hasNext ELSE TRUE

(* response.pagination?.hasNext || false *)
hasNextOf(response) ==
  IF "pagination" \in DOMAIN response THEN response.pagination.hasNext ELSE FALSE

(* the page limit reached one page early *)
pageLimitReached_at20(p) == p >= maxPages

pageLimitReached(p) == p > maxPages

(* fetchPatientsPage -> executeWithRetry: attempt 0 sends the request *)
FirstAttempt ==
  /\ rstate' = "requesting"
  /\ attempt' = 0
  /\ lastError' = None
  /\ result' = None
  /\ thrown' = None
  /\ invocations' = 1
  /\ backoffs' = 0
  /\ errorsSeen' = <<>>

InitClient ==
  /\ AppIdle
  /\ RiskIdle
  /\ service \in Services
  /\ CallIdle
  /\ fpc = "idle"
  /\ page = 0
  /\ hasMore = FALSE
  /\ allPatients = <<>>
  /\ fetches = <<>>
  /\ rstate = "idle"
  /\ attempt = 0
  /\ lastError = None
  /\ result = None
  /\ thrown = None
  /\ invocations = 0
  /\ backoffs = 0
  /\ errorsSeen = <<>>

(* fetchAllPatients is called: the first pass of the loop requests page 1 *)
FetchAllPatients ==
  /\ fpc = "idle"
  /\ allPatients' = <<>>
  /\ page' = 1
  /\ hasMore' = TRUE
  /\ fetches' = <<1>>
  /\ fpc' = "fetching"
  /\ FirstAttempt
  /\ UNCHANGED <<service, appVars, riskVars, callVars>>

(* the request succeeds: executeWithRetry returns response.data and        *)
(* fetchAllPatients takes the page                                         *)
RequestSucceeds ==
  /\ fpc = "fetching"
  /\ rstate = "requesting"
  /\ \E response \in Answers(service, page) :
     LET fetched == dataOf(response)
     IN /\ result' = response
        /\ rstate' = "returned"
        /\ IF Len(fetched) = 0
           THEN /\ fpc' = "returned"
                /\ UNCHANGED <<page, hasMore, allPatients>>
           ELSE /\ allPatients' = allPatients \o fetched
                /\ hasMore' = hasNextOf(response)
                /\ page' = page + 1
                /\ fpc' = IF pageLimitReached(page + 1) THEN "returned" ELSE "pause"
  /\ UNCHANGED <<attempt, lastError, thrown, invocations, backoffs, errorsSeen>>
  /\ UNCHANGED <<fetches, service, appVars, riskVars, callVars>>

(* the request fails: the catch block of executeWithRetry; what it throws  *)
(* fetchAllPatients rethrows                                               *)
RequestFails ==
  /\ fpc = "fetching"
  /\ rstate = "requesting"
  /\ \E error \in Errors :
       /\ lastError' = error
       /\ errorsSeen' = Append(errorsSeen, error)
       /\ IF isFinalAttempt(attempt) \/ (hasResponse(error) /\ ~isRetryableError(error))
          THEN /\ rstate' = "thrown"
               /\ thrown' = error
               /\ fpc' = "failed"
               /\ UNCHANGED backoffs
          ELSE /\ rstate' = "sleeping"
               /\ backoffs' = backoffs + 1
               /\ UNCHANGED <<thrown, fpc>>
  /\ UNCHANGED <<attempt, result, invocations, page, hasMore, allPatients>>
  /\ UNCHANGED <<fetches, service, appVars, riskVars, callVars>>

(* the backoff sleep ends: attempt++, then the loop test *)
BackoffDone ==
  /\ rstate = "sleeping"
  /\ attempt' = attempt + 1
  /\ IF attempt + 1 <= maxRetries
     THEN /\ rstate' = "requesting"
          /\ invocations' = invocations + 1
          /\ UNCHANGED <<thrown, fpc>>
     ELSE /\ rstate' = "thrown"
          /\ thrown' = lastError
          /\ fpc' = "failed"
          /\ UNCHANGED invocations
  /\ UNCHANGED <<lastError, result, backoffs, errorsSeen, page, hasMore, allPatients>>
  /\ UNCHANGED <<fetches, service, appVars, riskVars, callVars>>

(* the 200 ms pause between pages ends: the loop test of fetchAllPatients *)
PauseDone ==
  /\ fpc = "pause"
  /\ IF hasMore
     THEN /\ fpc' = "fetching"
          /\ fetches' = Append(fetches, page)
          /\ FirstAttempt
     ELSE /\ fpc' = "returned"
          /\ UNCHANGED <<fetches, retryVars>>
  /\ UNCHANGED <<page, hasMore, allPatients>>
  /\ UNCHANGED <<service, appVars, riskVars, callVars>>

NextClient ==
  \/ FetchAllPatients
  \/ RequestSucceeds
  \/ RequestFails
  \/ BackoffDone
  \/ PauseDone

(* every pending request settles (axios timeout) and every timer fires *)
SpecClient == InitClient /\ [][NextClient]_vars /\ WF_vars(NextClient)

(* fetchAllPatients against a service that answers anything *)
InitFetch ==
  /\ AppIdle
  /\ RiskIdle
  /\ service \in ErraticServices
  /\ CallIdle
  /\ fpc = "idle"
  /\ page = 0
  /\ hasMore = FALSE
  /\ allPatients = <<>>
  /\ fetches = <<>>
  /\ rstate = "idle"
  /\ attempt = 0
  /\ lastError = None
  /\ result = None
  /\ thrown = None
  /\ invocations = 0
  /\ backoffs = 0
  /\ errorsSeen = <<>>

SpecFetch == InitFetch /\ [][NextClient]_vars /\ WF_vars(NextClient)

----------------------------------------------------------------------------
(* HealthcareAssessmentApp.run: testConnection, fetchAllPatients, the      *)
(* batch pass, submitAssessment; any throw ends in process.exit(1).  pc is *)
(* the position of run.                                                    *)

(* the catch block of executeWithRetry for the error just caught *)
Throws(error) ==
  isFinalAttempt(attempt) \/ (hasResponse(error) /\ ~isRetryableError(error))

Caught(error) ==
  /\ lastError' = error
  /\ errorsSeen' = Append(errorsSeen, error)
  /\ IF Throws(error)
     THEN /\ rstate' = "thrown"
          /\ thrown' = error
          /\ UNCHANGED backoffs
     ELSE /\ rstate' = "sleeping"
          /\ backoffs' = backoffs + 1
          /\ UNCHANGED thrown
  /\ UNCHANGED <<attempt, result, invocations>>

(* if (!isConnected) taken as never true *)
mustAbort_never(isConnected) == FALSE

(* if (!isConnected) throw *)
mustAbort(isConnected) == ~isConnected

(* the catch block of run *)
Exit ==
  /\ pc' = "exited"
  /\ exitCode' = 1

InitRun ==
  /\ patients = <<>>
  /\ processedPatients = <<>>
  /\ warnings = <<>>
  /\ stats = None
  /\ alerts = None
  /\ pc = "start"
  /\ RiskIdle
  /\ service \in Services
  /\ CallIdle
  /\ fpc = "idle"
  /\ page = 0
  /\ hasMore = FALSE
  /\ allPatients = <<>>
  /\ fetches = <<>>
  /\ rstate = "idle"
  /\ attempt = 0
  /\ lastError = None
  /\ result = None
  /\ thrown = None
  /\ invocations = 0
  /\ backoffs = 0
  /\ errorsSeen = <<>>

(* run starts: testConnection requests page 1 *)
Run ==
  /\ pc = "start"
  /\ pc' = "connecting"
  /\ cpc' = "testing"
  /\ FirstAttempt
  /\ UNCHANGED <<patients, processedPatients, warnings, stats, alerts>>
  /\ UNCHANGED <<service, fetchVars, spc, submissions, exitCode, riskVars>>

(* the request of testConnection succeeds: it returns true *)
ConnectionRequestSucceeds ==
  /\ cpc = "testing"
  /\ rstate = "requesting"
  /\ \E response \in Answers(service, 1) : result' = response
  /\ rstate' = "returned"
  /\ cpc' = "true"
  /\ UNCHANGED <<attempt, lastError, thrown, invocations, backoffs, errorsSeen>>
  /\ UNCHANGED <<service, fetchVars, spc, submissions, exitCode, appVars, riskVars>>

(* the request of testConnection fails: retried, or caught to return false *)
ConnectionRequestFails ==
  /\ cpc = "testing"
  /\ rstate = "requesting"
  /\ \E error \in Errors :
       /\ Caught(error)
       /\ cpc' = IF Throws(error) THEN "false" ELSE cpc
  /\ UNCHANGED <<service, fetchVars, spc, submissions, exitCode, appVars, riskVars>>

(* run resumes after testConnection: it throws, or calls fetchAllPatients, *)
(* whose first pass requests page 1                                        *)
RunConnected ==
  /\ pc = "connecting"
  /\ cpc \in {"true", "false"}
  /\ IF mustAbort(cpc = "true")
     THEN /\ Exit
          /\ UNCHANGED <<fetchVars, retryVars>>
     ELSE /\ pc' = "fetching"
          /\ allPatients' = <<>>
          /\ page' = 1
          /\ hasMore' = TRUE
          /\ fetches' = <<1>>
          /\ fpc' = "fetching"
          /\ FirstAttempt
          /\ UNCHANGED exitCode
  /\ UNCHANGED <<patients, processedPatients, warnings, stats, alerts>>
  /\ UNCHANGED <<service, cpc, spc, submissions, riskVars>>

(* run resumes after fetchAllPatients: with the list, or in its catch *)
RunFetched ==
  /\ pc = "fetching"
  /\ fpc \in {"returned", "failed"}
  /\ IF fpc = "failed"
     THEN /\ Exit
          /\ UNCHANGED patients
     ELSE /\ patients' = allPatients
          /\ pc' = "fetched"
          /\ UNCHANGED exitCode
  /\ UNCHANGED <<processedPatients, warnings, stats, alerts>>
  /\ UNCHANGED <<service, fetchVars, retryVars, cpc, spc, submissions, riskVars>>

(* after generateAlerts: submitAssessment posts the alert lists *)
SubmitAssessment ==
  /\ pc = "alerts"
  /\ pc' = "submitting"
  /\ spc' = "submitting"
  /\ submissions' = submissions + 1
  /\ FirstAttempt
  /\ UNCHANGED <<patients, processedPatients, warnings, stats, alerts>>
  /\ UNCHANGED <<service, fetchVars, cpc, exitCode, riskVars>>

SubmitRequestSucceeds ==
  /\ spc = "submitting"
  /\ rstate = "requesting"
  /\ result' = [success |-> TRUE]
  /\ rstate' = "returned"
  /\ spc' = "returned"
  /\ UNCHANGED <<attempt, lastError, thrown, invocations, backoffs, errorsSeen>>
  /\ UNCHANGED <<service, fetchVars, cpc, submissions, exitCode, appVars, riskVars>>

SubmitRequestFails ==
  /\ spc = "submitting"
  /\ rstate = "requesting"
  /\ \E error \in Errors :
       /\ Caught(error)
       /\ spc' = IF Throws(error) THEN "failed" ELSE spc
  /\ UNCHANGED <<service, fetchVars, cpc, submissions, exitCode, appVars, riskVars>>

(* run resumes after submitAssessment: it completes, or exits in its catch *)
RunSubmitted ==
  /\ pc = "submitting"
  /\ spc \in {"returned", "failed"}
  /\ IF spc = "failed"
     THEN Exit
     ELSE /\ pc' = "completed"
          /\ exitCode' = 0
  /\ UNCHANGED <<patients, processedPatients, warnings, stats, alerts>>
  /\ UNCHANGED <<service, fetchVars, retryVars, cpc, spc, submissions, riskVars>>

NextRun ==
  \/ Run
  \/ ConnectionRequestSucceeds
  \/ ConnectionRequestFails
  \/ RunConnected
  \/ RequestSucceeds
  \/ RequestFails
  \/ BackoffDone
  \/ PauseDone
  \/ RunFetched
  \/ ProcessPatients
  \/ GetProcessingStats
  \/ GenerateAlerts
  \/ SubmitAssessment
  \/ SubmitRequestSucceeds
  \/ SubmitRequestFails
  \/ RunSubmitted

SpecRun == InitRun /\ [][NextRun]_vars /\ WF_vars(NextRun)

----------------------------------------------------------------------------
(* Properties *)

IdA == Str(<<"A">>)

IdB == Str(<<"B">>)

IdC == Str(<<"C">>)

ExampleDone == pc = "alerts" /\ patients = ExampleBatch

(* C1, as stated: the example batch [A, B, C] yields the high-risk list    *)
(* exactly [B], the fever list exactly [C], the data-quality list exactly  *)
(* [C], stats.total = 3 and stats.fullyValid = 2.                          *)
C1_ExampleAsStated ==
  ExampleDone =>
    /\ alerts.high_risk_patients = <<IdB>>
    /\ alerts.fever_patients = <<IdC>>
    /\ alerts.data_quality_issues = <<IdC>>
    /\ stats.total = 3
    /\ stats.fullyValid = 2

(* C1, amended: the example batch [A, B, C] yields the high-risk list      *)
(* exactly [A, B] (A scores 3 for its diastolic of 80, 0 for temperature   *)
(* and 1 for age), the fever list exactly [C], the data-quality list       *)
(* exactly [C], stats.total = 3 and stats.fullyValid = 2.                  *)
C1_Example ==
  ExampleDone =>
    /\ alerts.high_risk_patients = <<IdA, IdB>>
    /\ alerts.fever_patients = <<IdC>>
    /\ alerts.data_quality_issues = <<IdC>>
    /\ stats.total = 3
    /\ stats.fullyValid = 2

C1_Witness ==
  /\ ExampleDone
  /\ Len(processedPatients) = 3
  /\ calculateTotalRisk(processedPatients[2]) = 6

Scored == rpc \in {"scored", "flagged", "done"}

Flagged == rpc \in {"flagged", "done"}

Categorized == rpc = "done"

BP == subject.blood_pressure_data

ReadingPresent == BP.valid /\ BP.systolic # Undefined /\ BP.diastolic # Undefined

IsWhole(n) == n % Scale = 0

Max(a, b) == IF a >= b THEN a ELSE b

(* C2: for every valid reading whose systolic and diastolic each imply a   *)
(* stage, the blood-pressure score is the score of the higher of the two   *)
(* stages.                                                                 *)
C2_HigherStage ==
  (/\ Scored
   /\ ReadingPresent
   /\ SystolicStage(BP.systolic.num) # INVALID
   /\ DiastolicStage(BP.diastolic.num) # INVALID)
    => report.scores.blood_pressure =
         Max(StageScore(SystolicStage(BP.systolic.num)),
             StageScore(DiastolicStage(BP.diastolic.num)))

(* the ordered chain of C3 over whole numbers of mmHg *)
ChainScore(s, d) ==
  IF s < 120 /\ d < 80 THEN 1
  ELSE IF s >= 120 /\ s <= 129 /\ d < 80 THEN 2
  ELSE IF (s >= 130 /\ s <= 139) \/ (d >= 80 /\ d <= 89) THEN 3
  ELSE IF s >= 140 \/ d >= 90 THEN 4
  ELSE -1

C4_ValidNeverInvalid ==
  (rawPatient # None /\ BP.valid) =>
    /\ Scored => report.scores.blood_pressure \in 1..4
    /\ Categorized => report.categories.blood_pressure # INVALID

TEMP == subject.temperature_data

TempPresent == TEMP.valid /\ TEMP.value # Undefined

(* C5: the temperature score is 0 when the temperature is invalid or       *)
(* missing, 0 when the valid value is <= 99.5, 1 when it is in             *)
(* [99.6, 100.9] and 2 when it is >= 101.0.                                *)
C5_TemperatureScore ==
  Scored =>
    /\ ~TempPresent => report.scores.temperature = 0
    /\ (TempPresent /\ TEMP.value.num <= 9950) => report.scores.temperature = 0
    /\ (TempPresent /\ TEMP.value.num >= 9960 /\ TEMP.value.num <= 10090)
         => report.scores.temperature = 1
    /\ (TempPresent /\ TEMP.value.num >= 10100) => report.scores.temperature = 2

C5_Witness ==
  /\ Scored
  /\ rawPatient # None
  /\ TempPresent
  /\ TEMP.value = Num(10090)
  /\ report.scores.temperature = 1

AGE == subject.age_data

AgePresent == AGE.valid /\ AGE.value # Undefined

(* C6: the age score is 0 when the age is invalid or missing, 1 when the   *)
(* valid age is < 40, 1 when it is in [40, 65] and 2 when it is > 65.      *)
C6_AgeScore ==
  Scored =>
    /\ ~AgePresent => report.scores.age = 0
    /\ (AgePresent /\ AGE.value.num < 4000) => report.scores.age = 1
    /\ (AgePresent /\ AGE.value.num >= 4000 /\ AGE.value.num <= 6500)
         => report.scores.age = 1
    /\ (AgePresent /\ AGE.value.num > 6500) => report.scores.age = 2

C6_Witness ==
  /\ Scored
  /\ rawPatient # None
  /\ AgePresent
  /\ AGE.value = Num(6500)
  /\ report.scores.age = 1

(* C7: calculateTotalRisk is the sum of the three scores,                  *)
(* getDetailedRiskScores reports the same total, the blood-pressure score  *)
(* is in 0..4, the temperature and age scores in 0..2, the total in 0..8.  *)
C7_TotalIsSum ==
  Flagged =>
    /\ report.total = calculateBloodPressureRisk(subject)
                        + calculateTemperatureRisk(subject)
                        + calculateAgeRisk(subject)
    /\ report.scores.total = report.total
    /\ report.scores.blood_pressure \in 0..4
    /\ report.scores.temperature \in 0..2
    /\ report.scores.age \in 0..2
    /\ report.total \in 0..8

C7_Witness ==
  /\ Flagged
  /\ rawPatient # None
  /\ report.total = 8
  /\ report.scores.age = 2

AlertsDone == pc = "alerts"

(* the ids, in input order, of the patients satisfying P *)
IdsWhere(pps, P(_)) ==
  LET sel == SelectSeq(pps, P) IN [i \in 1..Len(sel) |-> sel[i].id]

AnyFieldInvalid(p) ==
  ~p.age_data.valid \/ ~p.blood_pressure_data.valid \/ ~p.temperature_data.valid

NoDuplicates(seq) ==
  \A i, j \in 1..Len(seq) : i # j => seq[i] # seq[j]

InList(id, list) == \E i \in 1..Len(list) : list[i] = id

(* C8: generateAlerts returns, each in input order, the ids of the         *)
(* patients with isHighRisk, the ids of those with hasFever and the ids of *)
(* those with at least one invalid field; with unique input ids no list    *)
(* holds a duplicate.                                                      *)
C8_AlertLists ==
  AlertsDone =>
    /\ alerts.high_risk_patients = IdsWhere(processedPatients, isHighRisk)
    /\ alerts.fever_patients = IdsWhere(processedPatients, hasFever)
    /\ alerts.data_quality_issues = IdsWhere(processedPatients, AnyFieldInvalid)
    /\ NoDuplicates([i \in 1..Len(processedPatients) |-> processedPatients[i].id])
         => /\ NoDuplicates(alerts.high_risk_patients)
            /\ NoDuplicates(alerts.fever_patients)
            /\ NoDuplicates(alerts.data_quality_issues)

(* a batch with a patient in all three lists, one in exactly one list and  *)
(* one in none                                                             *)
C8_Witness ==
  /\ AlertsDone
  /\ Len(processedPatients) = 3
  /\ \E i \in 1..3 :
       /\ InList(processedPatients[i].id, alerts.high_risk_patients)
       /\ InList(processedPatients[i].id, alerts.fever_patients)
       /\ InList(processedPatients[i].id, alerts.data_quality_issues)
  /\ \E i \in 1..3 :
       /\ InList(processedPatients[i].id, alerts.high_risk_patients)
       /\ ~InList(processedPatients[i].id, alerts.fever_patients)
       /\ ~InList(processedPatients[i].id, alerts.data_quality_issues)
  /\ \E i \in 1..3 :
       /\ ~InList(processedPatients[i].id, alerts.high_risk_patients)
       /\ ~InList(processedPatients[i].id, alerts.fever_patients)
       /\ ~InList(processedPatients[i].id, alerts.data_quality_issues)

(* C9: hasFever is true exactly when the temperature is valid and its      *)
(* value is >= 99.6, whatever the age, the blood pressure and the total.   *)
C9_HasFever ==
  Flagged => (report.fever <=> (TempPresent /\ TEMP.value.num >= 9960))

(* a patient at exactly 99.6 with fever and a total below 4 *)
C9_Witness ==
  /\ Flagged
  /\ rawPatient # None
  /\ TEMP.value = Num(9960)
  /\ report.fever
  /\ ~report.highRisk

BloodPressureLabelScore(label) ==
  CASE label = "normal"   -> 1
    [] label = "elevated" -> 2
    [] label = "stage_1"  -> 3
    [] label = "stage_2"  -> 4
    [] label = "invalid"  -> 0

TemperatureLabelScore(label) ==
  CASE label = "normal"     -> 0
    [] label = "low_fever"  -> 1
    [] label = "high_fever" -> 2
    [] label = "invalid"    -> 0

AgeLabelScore(label) ==
  CASE label = "under_40"   -> 1
    [] label = "middle_age" -> 1
    [] label = "over_65"    -> 2
    [] label = "invalid"    -> 0

(* C10: each score equals the score of the category label of the same      *)
(* patient: blood pressure normal 1, elevated 2, stage_1 3, stage_2 4,     *)
(* invalid 0; temperature normal 0, low_fever 1, high_fever 2, invalid 0;  *)
(* age under_40 1, middle_age 1, over_65 2, invalid 0.                     *)
C10_LabelsAgreeWithScores ==
  Categorized =>
    /\ report.scores.blood_pressure =
         BloodPressureLabelScore(report.categories.blood_pressure)
    /\ report.scores.temperature =
         TemperatureLabelScore(report.categories.temperature)
    /\ report.scores.age = AgeLabelScore(report.categories.age)

C10_Witness ==
  /\ Categorized
  /\ rawPatient # None
  /\ report.categories.blood_pressure = "stage_1"
  /\ report.categories.temperature = "low_fever"
  /\ report.categories.age = "middle_age"
  /\ report.scores.blood_pressure = 3
  /\ report.scores.temperature = 1
  /\ report.scores.age = 1

Normalized == rpc = "normalized"

(* an unsigned integer or decimal: digits, with at most one point that has *)
(* a digit on each side                                                    *)
UnsignedDecimalText(s) ==
  /\ Len(s) >= 1
  /\ \A i \in 1..Len(s) : IsDigit(s[i]) \/ s[i] = "."
  /\ Cardinality({i \in 1..Len(s) : s[i] = "."}) <= 1
  /\ IsDigit(s[1])
  /\ IsDigit(s[Len(s)])

(* C11: processAge returns valid=false with no value for null, undefined,  *)
(* "", a string that trimmed is not an unsigned integer or decimal, and a  *)
(* number <= 0 or >= 150; for any other number a it returns a unrounded;   *)
(* for a numeric string of a with 0 < a < 150 it returns round(a).         *)
C11_ProcessAge ==
  Normalized =>
    LET a == rawPatient.age
        r == subject.age_data
    IN /\ a \in {Null, Undefined, Str(<<>>)} => (~r.valid /\ r.value = Undefined)
       /\ (a.type = "string" /\ ~UnsignedDecimalText(trim(a.str)))
            => (~r.valid /\ r.value = Undefined)
       /\ (a.type = "number" /\ (a.num <= 0 \/ a.num >= 15000))
            => (~r.valid /\ r.value = Undefined)
       /\ (a.type = "number" /\ a.num > 0 /\ a.num < 15000)
            => (r.valid /\ r.value = a)
       /\ \A n \in AgeNumbers :
            (a \in Padded(DecStr(n)) /\ n > 0 /\ n < 15000)
              => /\ r.valid
                 /\ r.value.type = "number"
                 /\ IsWhole(r.value.num)
                 /\ r.value.num - 50 <= n
                 /\ n < r.value.num + 50

(* the string "65.5" normalized to 66 *)
C11_Witness ==
  /\ Normalized
  /\ rawPatient.age = Str(<<"6", "5", ".", "5">>)
  /\ subject.age_data.valid
  /\ subject.age_data.value = Num(6600)

ContainsAny(s, words) == \E w \in words : includes(toLowerCase(s), w)

InRange(v, lo, hi) == v # Null /\ v.num >= lo /\ v.num <= hi

BloodPressureWords ==
  {<<"i", "n", "v", "a", "l", "i", "d">>, <<"n", "/", "a">>,
   <<"e", "r", "r", "o", "r">>}

(* a string with none of the words and exactly one "/" between two         *)
(* non-empty trimmed parts that parse to a systolic in [70,300] and a      *)
(* diastolic in [40,200]                                                   *)
ReadingText(bp) ==
  /\ bp.type = "string"
  /\ ~ContainsAny(bp.str, BloodPressureWords)
  /\ Cardinality({i \in 1..Len(bp.str) : bp.str[i] = "/"}) = 1
  /\ LET i     == CHOOSE k \in 1..Len(bp.str) : bp.str[k] = "/"
         left  == trim(SubSeq(bp.str, 1, i - 1))
         right == trim(SubSeq(bp.str, i + 1, Len(bp.str)))
     IN /\ left # <<>>
        /\ right # <<>>
        /\ InRange(parseNumericValue(Str(left)), 7000, 30000)
        /\ InRange(parseNumericValue(Str(right)), 4000, 20000)

ReadingObject(bp) ==
  /\ bp.type = "object"
  /\ InRange(parseNumericValue(bp.systolic), 7000, 30000)
  /\ InRange(parseNumericValue(bp.diastolic), 4000, 20000)

(* C12: processBloodPressure returns valid=true exactly for a string       *)
(* without "invalid", "n/a", "error" (any case) that has exactly one "/"   *)
(* between two non-empty trimmed parts parseable as numbers, or an object  *)
(* with numeric-coercible systolic and diastolic, with systolic in         *)
(* [70,300] and diastolic in [40,200]; a bare number, a missing side and   *)
(* an in-range value paired with an out-of-range one are invalid.          *)
C12_ProcessBloodPressure ==
  Normalized =>
    LET bp == rawPatient.blood_pressure IN
      /\ subject.blood_pressure_data.valid <=> (ReadingText(bp) \/ ReadingObject(bp))
      /\ bp.type = "number" => ~subject.blood_pressure_data.valid
      /\ bp \in {Str(<<"1", "5", "0", "/">>), Str(<<"/", "9", "0">>),
                 BPStr(Fx(69, 0), Fx(80, 0))}
           => ~subject.blood_pressure_data.valid

(* systolic 69 with diastolic 80 is invalid as a whole *)
C12_Witness ==
  /\ Normalized
  /\ rawPatient.blood_pressure = BPStr(Fx(69, 0), Fx(80, 0))
  /\ ~subject.blood_pressure_data.valid
  /\ subject.blood_pressure_data.diastolic = Undefined

TemperatureWords ==
  {<<"t", "e", "m", "p", "_", "e", "r", "r", "o", "r">>,
   <<"i", "n", "v", "a", "l", "i", "d">>, <<"n", "/", "a">>,
   <<"e", "r", "r", "o", "r">>}

NotUnitMarker(c) == c \notin {"deg", "ord", "degF", "f", "F"}

(* the number a temperature string parses to once its unit markers are out *)
TemperatureOfText(str) == parseNumericValue(Str(SelectSeq(str, NotUnitMarker)))

TemperatureAccepted(temp) ==
  \/ temp.type = "number" /\ InRange(temp, 9000, 11000)
  \/ /\ temp.type = "string"
     /\ ~ContainsAny(temp.str, TemperatureWords)
     /\ InRange(TemperatureOfText(temp.str), 9000, 11000)

(* C13: processTemperature returns valid=true exactly for a number in      *)
(* [90,110] or a string without "temp_error", "invalid", "n/a", "error"    *)
(* (any case) whose text without degree and Fahrenheit markers parses to a *)
(* number in [90,110]; null, undefined, "" and well-formed numbers outside *)
(* the range are invalid; the value returned is the parsed number.         *)
C13_ProcessTemperature ==
  Normalized =>
    LET temp == rawPatient.temperature
        r    == subject.temperature_data
    IN /\ r.valid <=> TemperatureAccepted(temp)
       /\ temp \in {Null, Undefined, Str(<<>>), Num(0), Num(Fx(212, 0)),
                    Str(<<"2", "1", "2">>), Str(<<"0">>)} => ~r.valid
       /\ (r.valid /\ temp.type = "number") => r.value = temp
       /\ (r.valid /\ temp.type = "string") => r.value = TemperatureOfText(temp.str)

(* "101.5" with a degree sign and an F gives 101.5 *)
C13_Witness ==
  /\ Normalized
  /\ rawPatient.temperature = Str(<<"1", "0", "1", ".", "5", "deg", "F">>)
  /\ subject.temperature_data.valid
  /\ subject.temperature_data.value = Num(10150)

(* C14: in a ProcessedPatient made by processPatient each field result has *)
(* a normalized value exactly when its valid flag is true, and keeps the   *)
(* raw input unchanged in original.                                        *)
C14_ValueOnlyWhenValid ==
  Normalized =>
    /\ subject.age_data.valid <=> subject.age_data.value # Undefined
    /\ subject.blood_pressure_data.valid
         <=> subject.blood_pressure_data.systolic # Undefined
    /\ subject.blood_pressure_data.valid
         <=> subject.blood_pressure_data.diastolic # Undefined
    /\ subject.temperature_data.valid <=> subject.temperature_data.value # Undefined
    /\ subject.age_data.original = rawPatient.age
    /\ subject.blood_pressure_data.original = rawPatient.blood_pressure
    /\ subject.temperature_data.original = rawPatient.temperature

(* an age that is not a number next to a valid reading and temperature *)
C14_Witness ==
  /\ Normalized
  /\ rawPatient.age = Str(<<"1", "2", "a", "b", "c">>)
  /\ ~subject.age_data.valid
  /\ subject.age_data.value = Undefined
  /\ subject.blood_pressure_data.valid
  /\ subject.temperature_data.valid

Processed == pc \in {"processed", "stats", "alerts"}

(* the 1-based positions of the input records, in order *)
Positions == [i \in 1..Len(patients) |-> i]

(* processPatients reported the record at position i *)
Warned(i) == \E k \in 1..Len(warnings) : warnings[k] = i - 1

NotWarned(i) == ~Warned(i)

(* a patient_id trimmed when it is a string, in decimal when it is a number *)
CleanId(v) ==
  IF v.type = "string" THEN Str(trim(v.str))
  ELSE IF v.type = "number" THEN Str(DecStr(v.num))
  ELSE v

(* C15: the id of every ProcessedPatient is the raw patient_id trimmed     *)
(* when it is a string and converted to a string when it is a number.      *)
C15_IdTrimmedOrStringified ==
  Processed =>
    LET kept == SelectSeq(Positions, NotWarned) IN
      /\ Len(kept) = Len(processedPatients)
      /\ \A k \in 1..Len(kept) :
           processedPatients[k].id = CleanId(patients[kept[k]].patient_id)

(* a record whose patient_id is present and not empty once trimmed or      *)
(* stringified                                                             *)
UsableAt(i) ==
  /\ patients[i] \notin {Null, Undefined}
  /\ \/ patients[i].patient_id.type = "number"
     \/ /\ patients[i].patient_id.type = "string"
        /\ trim(patients[i].patient_id.str) # <<>>

(* C16: processPatients excludes a record, with a warning and outside      *)
(* stats.total, exactly when its patient_id is absent or empty after       *)
(* trimming or stringifying; a blank id is excluded, the number 0 is not.  *)
C16_ExcludedExactlyWhenNoId ==
  Processed =>
    /\ \A i \in 1..Len(patients) : Warned(i) <=> ~UsableAt(i)
    /\ Len(processedPatients) = Cardinality({i \in 1..Len(patients) : UsableAt(i)})
    /\ pc \in {"stats", "alerts"}
         => stats.total = Cardinality({i \in 1..Len(patients) : UsableAt(i)})

(* C17: processPatients returns for any input; every record with a usable  *)
(* patient_id yields exactly one ProcessedPatient, in input order,         *)
(* whatever the other records are; results plus warnings equals inputs.    *)
C17_OnePerUsableRecord ==
  Processed =>
    LET kept == SelectSeq(Positions, NotWarned) IN
      /\ Len(processedPatients) + Len(warnings) = Len(patients)
      /\ Len(kept) = Len(processedPatients)
      /\ \A k \in 1..Len(kept) :
           processedPatients[k] = processPatient(patients[kept[k]])
      /\ \A i \in 1..Len(patients) : UsableAt(i) => NotWarned(i)

(* the records of pages 1..k of the service, page by page, each once *)
RecordsOfPages(k) ==
  [i \in 1..(k * RecordsPerPage) |->
     ServiceRecord(((i - 1) \div RecordsPerPage) + 1, ((i - 1) % RecordsPerPage) + 1)]

FetchFinished == fpc \in {"returned", "failed"}

(* C18 as stated: a call that returned holds every record of every page    *)
(* of the service, each once; a call that failed had a page request use    *)
(* all its retries.                                                        *)
C18_CompleteOrExhausted ==
  /\ fpc = "returned" => allPatients = RecordsOfPages(service.pages)
  /\ fpc = "failed" => invocations = 4

(* the last page a call takes: none from an empty service, the first when  *)
(* the responses carry no pagination block, else the last page or page 20  *)
LastPageTaken ==
  IF service.pages = 0 THEN 0
  ELSE IF ~service.pagination THEN 1
  ELSE IF service.pages > 20 THEN 20
  ELSE service.pages

RetryableAsClaimed(e) ==
  \/ e.response = Undefined
  \/ e.response.status >= 500
  \/ e.response.status = 429

(* C18: every call of fetchAllPatients eventually returns or fails; when   *)
(* it returns, the list is the records of pages 1..k in page order, each   *)
(* once, k being the first page answered without hasNext = true, at most   *)
(* 20; when it fails, a page request got a response with a status below    *)
(* 500 other than 429, or failed on all 4 attempts.                        *)
C18_FetchedPagesOrFailure ==
  /\ (fpc # "idle") ~> FetchFinished
  /\ [](fpc = "returned" => allPatients = RecordsOfPages(LastPageTaken))
  /\ [](fpc = "failed" =>
          /\ thrown \in Errors
          /\ ~RetryableAsClaimed(thrown) \/ Len(errorsSeen) = 4)

(* a service of 21 pages: the call returns the records of the first 20 *)
C18_Witness ==
  /\ fpc = "returned"
  /\ service = [pages |-> 21, pagination |-> TRUE, erratic |-> FALSE]
  /\ Len(allPatients) = 20 * RecordsPerPage
  /\ allPatients[Len(allPatients)].page = 20
  /\ page = 21

(* C19: executeWithRetry sends the request at most 4 times; it returns at  *)
(* the first success with no further attempt; when all 4 attempts fail it  *)
(* rethrows the error of the last one; there is one backoff sleep between  *)
(* consecutive attempts and none after the final one.                      *)
C19_AtMostFourAttempts ==
  /\ invocations <= 4
  /\ rstate = "requesting"
       => (invocations = Len(errorsSeen) + 1 /\ backoffs = invocations - 1)
  /\ rstate = "sleeping"
       => (invocations = Len(errorsSeen) /\ backoffs = invocations /\ invocations < 4)
  /\ rstate = "returned"
       => /\ result # None
          /\ thrown = None
          /\ invocations = Len(errorsSeen) + 1
          /\ backoffs = invocations - 1
  /\ rstate = "thrown"
       => /\ result = None
          /\ invocations = Len(errorsSeen)
          /\ thrown = errorsSeen[Len(errorsSeen)]
          /\ backoffs = invocations - 1
  /\ Len(errorsSeen) = 4 => (rstate = "thrown" /\ thrown = errorsSeen[4])

(* a network error, a 429 and two 500s: the second 500 is rethrown after   *)
(* three sleeps                                                            *)
C19_Witness ==
  /\ rstate = "thrown"
  /\ errorsSeen = <<NetworkError, HttpError(429), HttpError(500), HttpError(500)>>
  /\ thrown = HttpError(500)
  /\ invocations = 4
  /\ backoffs = 3

(* C20: a failure with a response of status below 500 other than 429 is    *)
(* rethrown at once, with no sleep and no further attempt; a failure       *)
(* without a response, or with status >= 500 or 429, made before the 4th   *)
(* attempt is followed by a sleep and then another attempt.                *)
C20_RetryOnlyRetryable ==
  [][/\ (rstate = "requesting" /\ Len(errorsSeen') = Len(errorsSeen) + 1)
          => LET e == errorsSeen'[Len(errorsSeen')] IN
               /\ ~RetryableAsClaimed(e)
                    => /\ rstate' = "thrown"
                       /\ thrown' = e
                       /\ backoffs' = backoffs
                       /\ invocations' = invocations
               /\ (RetryableAsClaimed(e) /\ invocations < 4)
                    => (rstate' = "sleeping" /\ backoffs' = backoffs + 1)
     /\ (rstate = "sleeping" /\ rstate' # "sleeping")
          => (rstate' = "requesting" /\ invocations' = invocations + 1)
     /\ rstate = "thrown"
          => (rstate' = "thrown" /\ invocations' = invocations)
    ]_vars

(* a 429 is retried after a sleep and the 404 that follows is rethrown *)
C20_Witness ==
  /\ rstate = "thrown"
  /\ errorsSeen = <<HttpError(429), HttpError(404)>>
  /\ thrown = HttpError(404)
  /\ invocations = 2
  /\ backoffs = 1

(* C23: whenever processAge returns valid=true the value it returns is     *)
(* itself above 0 and below 150, for numbers and for strings alike,        *)
(* "149.6" and "0.4" included.                                             *)
C23_ValidAgeWithinBounds ==
  Normalized =>
    (subject.age_data.valid =>
       /\ subject.age_data.value.num > 0
       /\ subject.age_data.value.num < 150 * Scale)

(* temperatures the normalizer accepts, down to hundredths *)
AcceptedTemperatures ==
  {Fx(90, 0), Fx(98, 60), Fx(99, 50), Fx(99, 55), Fx(99, 60), Fx(100, 90),
   Fx(100, 95), Fx(101, 0), Fx(110, 0)}

(* the patient under study with the valid temperature t *)
WithTemperature(t) ==
  [subject EXCEPT !.temperature_data =
     [valid |-> TRUE, value |-> Num(t), original |-> Num(t)]]

(* C24: over the valid temperatures in [90,110], at any decimal            *)
(* resolution, a lower temperature never scores more than a higher one,    *)
(* and a patient with hasFever true never has temperature score 0.         *)
C24_TemperatureScoreMonotone ==
  /\ (Scored /\ TempPresent /\ TEMP.value.num >= Fx(90, 0) /\ TEMP.value.num <= Fx(110, 0))
       => \A t \in AcceptedTemperatures :
            t <= TEMP.value.num
              => calculateTemperatureRisk(WithTemperature(t)) <= report.scores.temperature
  /\ (Flagged /\ report.fever) => report.scores.temperature >= 1

(* C25: getProcessingStats gives total = number of patients = fullyValid + *)
(* dataQualityIssues, each of validAge, validBP, validTemp between         *)
(* fullyValid and total, and dataQualityIssues equal to the length of the  *)
(* data_quality_issues list generateAlerts builds from the same patients.  *)
C25_StatsConsistent ==
  /\ pc \in {"stats", "alerts"} =>
       /\ stats.total = Len(processedPatients)
       /\ stats.total = stats.fullyValid + stats.dataQualityIssues
       /\ \A n \in {stats.validAge, stats.validBP, stats.validTemp} :
            stats.fullyValid <= n /\ n <= stats.total
  /\ AlertsDone => stats.dataQualityIssues = Len(alerts.data_quality_issues)

(* three patients: one fully valid, one with a bad age only, one with     *)
(* nothing valid                                                           *)
C25_Witness ==
  /\ AlertsDone
  /\ stats.total = 3
  /\ stats.fullyValid = 1
  /\ stats.dataQualityIssues = 2
  /\ stats.validAge = 1
  /\ stats.validBP = 2
  /\ stats.validTemp = 2
  /\ Len(alerts.data_quality_issues) = 2

AnswerEmpty(r) == "data" \notin DOMAIN r \/ r.data = <<>>

AnswerHasNext(r) == "pagination" \in DOMAIN r /\ r.pagination.hasNext

(* the number of pages whose records the call has appended *)
PagesTaken ==
  IF fpc = "idle" THEN 0
  ELSE IF fpc = "pause" THEN Len(fetches)
  ELSE IF fpc = "returned" /\ ~AnswerEmpty(result) THEN Len(fetches)
  ELSE Len(fetches) - 1

(* C21: fetchAllPatients always terminates, whatever the service answers;  *)
(* it requests pages 1, 2, 3, ... in increasing order, none skipped or     *)
(* repeated, appends each page's records in that order, requests a further *)
(* page only after a non-empty page with hasNext true and never after a    *)
(* page failure, and fetches at most 20 pages in one call.                 *)
C21_PagesInOrderUntilStop ==
  /\ (fpc # "idle") ~> FetchFinished
  /\ [](/\ fetches = [i \in 1..Len(fetches) |-> i]
        /\ Len(fetches) <= 20
        /\ allPatients = RecordsOfPages(PagesTaken))
  /\ [][fetches' # fetches
          => /\ fetches' = Append(fetches, Len(fetches) + 1)
             /\ fpc \in {"idle", "pause"}
             /\ fpc = "pause"
                  => /\ rstate = "returned"
                     /\ ~AnswerEmpty(result)
                     /\ AnswerHasNext(result)]_vars

(* two pages taken, the third answered empty although hasNext was true *)
C21_Witness ==
  /\ service.erratic
  /\ fpc = "returned"
  /\ fetches = <<1, 2, 3>>
  /\ result = [data |-> <<>>, pagination |-> [hasNext |-> TRUE]]
  /\ Len(allPatients) = 2 * RecordsPerPage

(* the order of the steps of run *)
RunOrder ==
  {<<"start", "connecting">>, <<"connecting", "fetching">>,
   <<"fetching", "fetched">>, <<"fetched", "processed">>,
   <<"processed", "stats">>, <<"stats", "alerts">>,
   <<"alerts", "submitting">>, <<"submitting", "completed">>,
   <<"connecting", "exited">>, <<"fetching", "exited">>,
   <<"submitting", "exited">>}

(* a step of run has failed: the connectivity test returned false, or      *)
(* fetchAllPatients or submitAssessment threw                              *)
StepFailed ==
  \/ pc = "connecting" /\ cpc = "false"
  \/ pc = "fetching" /\ fpc = "failed"
  \/ pc = "submitting" /\ spc = "failed"

(* C22: in every execution of run the steps come in the order connectivity *)
(* test, fetch of all patients, processing, alert generation, submission;  *)
(* submitAssessment is called at most once, only after testConnection      *)
(* returned true and fetchAllPatients returned; when the connectivity test *)
(* fails or a step throws, nothing is submitted afterwards and the next    *)
(* step of run is the exit of the process with code 1.                     *)
C22_RunOrder ==
  /\ [](/\ submissions <= 1
        /\ pc = "exited" <=> exitCode = 1
        /\ submissions = 1 => (cpc = "true" /\ fpc = "returned"))
  /\ [][/\ pc' # pc => <<pc, pc'>> \in RunOrder
        /\ submissions' # submissions
             => /\ submissions = 0
                /\ pc = "alerts"
                /\ cpc = "true"
                /\ fpc = "returned"
                /\ patients = allPatients
                /\ processedPatients = processPatients(patients)
                /\ alerts = generateAlerts(processedPatients)
        /\ (StepFailed /\ pc' # pc) => (pc' = "exited" /\ exitCode' = 1)
        /\ (StepFailed \/ pc = "exited") => submissions' = submissions
       ]_vars

(* a run over three pages that ends with one submission *)
C22_Witness ==
  /\ pc = "completed"
  /\ service = [pages |-> 3, pagination |-> TRUE, erratic |-> FALSE]
  /\ submissions = 1
  /\ exitCode = 0
  /\ Len(patients) = 3 * RecordsPerPage
  /\ Len(processedPatients) = 3 * RecordsPerPage
  /\ spc = "returned"

====
